---- MODULE Spec2Model ----
(***************************************************************************)
(* Model of the GravitySimulator component (my-vue-app/src/App.tsx).       *)
(*                                                                         *)
(* One "session" is one run of the useEffect body: it owns the closure     *)
(* variables velocity / isResting, the sphere's position, a THREE.Clock,   *)
(* a resize handler, a canvas and a reset button.  The effect's cleanup    *)
(* ends a session; a change of one of the four dependencies re-runs the    *)
(* effect.                                                                 *)
(*                                                                         *)
(* Numbers.  The code computes in IEEE-754 doubles.  The model computes    *)
(* in decimal fixed point with Scale units per 1.0 and rounds to nearest   *)
(* after every multiplication, in the same order of operations as the      *)
(* code.  Wall time is counted in milliseconds.                            *)
(***************************************************************************)
EXTENDS Integers, Sequences, FiniteSets, TLC

VARIABLES
  props,          \* the component's useState values
  mounted,        \* the component (and its mount div) is in the document
  mountRef,       \* mountRef.current is not null
  sessions,       \* one record per run of the effect body, in order
  windowResize,   \* sessions whose handleResize is registered on window
  mountChildren,  \* sessions whose canvas is a child of the mount div
  bodyButtons,    \* sessions whose reset button is a child of document.body
  last,           \* what the most recent step did (observation only)
  frames          \* animate() calls made by the frame scheduler so far

vars == <<props, mounted, mountRef, sessions, windowResize, mountChildren,
          bodyButtons, last, frames>>

(***************************************************************************)
(* Bounds of the model                                                     *)
(***************************************************************************)
\* number of effect runs (sessions) explored
MaxSessions == 2
\* wall-clock intervals are tracked exactly up to this many ms, then saturate
\* (above the 100 ms of the delta cap, so that the cap is observable)
TimeCap == 101
\* animate() calls explored in the lifecycle specification
MaxFrames == 4

(***************************************************************************)
(* Fixed-point arithmetic                                                  *)
(***************************************************************************)
Scale == 10000

Abs(x) == IF x < 0 THEN -x ELSE x

Min(a, b) == IF a < b THEN a ELSE b

\* n / d rounded to the nearest integer (d > 0)
RoundDiv(n, d) == (2 * n + d) \div (2 * d)

\* the product of two fixed-point numbers
Mul(a, b) == RoundDiv(a * b, Scale)

\* seconds (fixed point) in a number of milliseconds
Seconds(ms) == ms * (Scale \div 1000)

(***************************************************************************)
(* Program constants                                                       *)
(***************************************************************************)
\* sphere.position.y = 10
dropHeight == 10 * Scale
\* const restThreshold = 0.01
restThreshold == Scale \div 100
\* Math.min(clock.getDelta(), 0.1)
maxDelta == Scale \div 10

\* useState defaults
DefaultProps ==
  [restitution |-> 7000, gravity |-> 98000, sphereRadius |-> 10000,
   friction |-> 300]

(***************************************************************************)
(* One session: the closure state of one run of the effect body            *)
(***************************************************************************)
\* NewSession placing the sphere on the ground instead of at the drop height
NewSession_OnGround(p) ==
  [restitution |-> p.restitution, gravity |-> p.gravity,
   sphereRadius |-> p.sphereRadius, friction |-> p.friction,
   y |-> p.sphereRadius, velocity |-> 0, isResting |-> FALSE,
   clockRunning |-> FALSE, sinceTick |-> 0,
   rafPending |-> 0,
   cleaned |-> FALSE, sinceFrame |-> 0, rebound |-> 0]

\* the state the effect body sets up before its first animate() call;
\* rafPending counts the session's registered frame callbacks
NewSession(p) ==
  [restitution |-> p.restitution, gravity |-> p.gravity,
   sphereRadius |-> p.sphereRadius, friction |-> p.friction,
   y |-> dropHeight, velocity |-> 0, isResting |-> FALSE,
   clockRunning |-> FALSE, sinceTick |-> 0,
   rafPending |-> 0,
   cleaned |-> FALSE, sinceFrame |-> 0, rebound |-> 0]

\* THREE.Clock.getDelta() in ms: the first call starts the clock and
\* returns 0, a later call returns the time since the previous call
GetDelta(s) == IF s.clockRunning THEN s.sinceTick ELSE 0

\* Delta without the cap Math.min(..., 0.1)
Delta_NoCap(s) == Seconds(GetDelta(s))

\* const delta = Math.min(clock.getDelta(), 0.1)
Delta(s) == Min(Seconds(GetDelta(s)), maxDelta)

\* velocity -= gravity * delta
IntegratedVelocity(s) == s.velocity - Mul(s.gravity, Delta(s))

\* sphere.position.y += velocity * delta
IntegratedY(s) == s.y + Mul(IntegratedVelocity(s), Delta(s))

\* Contact testing the sphere's centre against the ground plane y = 0
Contact_Centre(s) == IntegratedY(s) < 0

\* if (sphere.position.y < sphereRadius)
Contact(s) == IntegratedY(s) < s.sphereRadius

\* Bounces with >= in place of >
Bounces_Inclusive(s) == Abs(IntegratedVelocity(s)) >= restThreshold

\* if (Math.abs(velocity) > restThreshold)
Bounces(s) == Abs(IntegratedVelocity(s)) > restThreshold

\* velocity = -velocity * restitution; velocity *= 1 - friction
Rebound(s) ==
  Mul(Mul(-IntegratedVelocity(s), s.restitution), Scale - s.friction)

\* ResolvedY without the clamp sphere.position.y = sphereRadius
ResolvedY_NoClamp(s) == IntegratedY(s)

\* sphere.position.y after the collision check
ResolvedY(s) == IF Contact(s) THEN s.sphereRadius ELSE IntegratedY(s)

\* ResolvedVelocity without velocity = 0 in the come-to-rest branch
ResolvedVelocity_KeptAtRest(s) ==
  IF ~Contact(s) THEN IntegratedVelocity(s)
  ELSE IF Bounces(s) THEN Rebound(s) ELSE IntegratedVelocity(s)

\* velocity after the collision check
ResolvedVelocity(s) ==
  IF ~Contact(s) THEN IntegratedVelocity(s)
  ELSE IF Bounces(s) THEN Rebound(s) ELSE 0

\* isResting after the collision check
ResolvedResting(s) == Contact(s) /\ ~Bounces(s)

\* Idle without requestAnimationFrame(animate): the loop stops at rest
Idle_Stops(s) == [s EXCEPT !.sinceFrame = 0]

\* animate() when isResting is set: only re-registers itself and renders
Idle(s) == [s EXCEPT !.rafPending = @ + 1, !.sinceFrame = 0]

\* animate() when isResting is not set: reads the clock, integrates, resolves
Integrate(s) ==
  [s EXCEPT
     !.rafPending = @ + 1,
     !.sinceFrame = 0,
     !.clockRunning = TRUE,
     !.sinceTick = 0,
     !.y = ResolvedY(s),
     !.velocity = ResolvedVelocity(s),
     !.isResting = ResolvedResting(s),
     !.rebound = IF Contact(s) /\ Bounces(s) THEN Rebound(s) ELSE @]

\* Animate without the test if (!isResting)
Animate_NoRestGuard(s) == Integrate(s)

\* one call of animate() on session record s
Animate(s) == IF s.isResting THEN Idle(s) ELSE Integrate(s)

\* what a call of animate() on s did, for the observation variable
FrameObs(i, s, kind) ==
  [kind |-> kind, s |-> i,
   wasResting |-> s.isResting,
   integrated |-> ~s.isResting,
   dt |-> IF s.isResting THEN 0 ELSE Delta(s),
   raw |-> s.sinceFrame,
   tick |-> IF s.isResting THEN 0 ELSE GetDelta(s),
   used |-> [restitution |-> s.restitution, gravity |-> s.gravity,
             sphereRadius |-> s.sphereRadius, friction |-> s.friction],
   preV |-> IF s.isResting THEN s.velocity ELSE IntegratedVelocity(s),
   preY |-> IF s.isResting THEN s.y ELSE IntegratedY(s),
   contact |-> ~s.isResting /\ Contact(s),
   bounced |-> ~s.isResting /\ Contact(s) /\ Bounces(s),
   prevRebound |-> s.rebound]

\* what a step other than a call of animate() did to session s
OtherObs(i, s, kind) ==
  [kind |-> kind, s |-> i, wasResting |-> s.isResting,
   integrated |-> FALSE, dt |-> 0, raw |-> 0, tick |-> 0,
   used |-> [restitution |-> s.restitution, gravity |-> s.gravity,
             sphereRadius |-> s.sphereRadius, friction |-> s.friction],
   preV |-> s.velocity, preY |-> s.y, contact |-> FALSE, bounced |-> FALSE, prevRebound |-> 0]

\* resetSimulation that also restarts the clock
ResetSimulation_RestartsClock(s) ==
  [s EXCEPT !.y = dropHeight, !.velocity = 0, !.isResting = FALSE,
            !.rebound = 0, !.sinceTick = 0]

\* resetSimulation without velocity = 0
ResetSimulation_KeepVelocity(s) ==
  [s EXCEPT !.y = dropHeight, !.isResting = FALSE, !.rebound = 0]

\* resetSimulation
ResetSimulation(s) ==
  [s EXCEPT !.y = dropHeight, !.velocity = 0, !.isResting = FALSE,
            !.rebound = 0]

\* wall time passes for every session's clock
Advance(ss, e) ==
  [j \in DOMAIN ss |->
     [ss[j] EXCEPT !.sinceTick = Min(@ + e, TimeCap),
                   !.sinceFrame = Min(@ + e, TimeCap)]]

\* the session of the latest effect run
Current == Len(sessions)

\* ParamsSeen reading the component's current state on every frame
ParamsSeen_Live(s, p) ==
  [s EXCEPT !.restitution = p.restitution, !.gravity = p.gravity,
            !.sphereRadius = p.sphereRadius, !.friction = p.friction]

\* the session record as its animate closure sees it when the component's
\* state is p: the four dependencies are the values captured by the effect
\* run, not the current state
ParamsSeen(s, p) == s

\* the scheduler takes one registered callback of s to call it
Dequeue(s) == [s EXCEPT !.rafPending = @ - 1]

(***************************************************************************)
(* The effect body and its cleanup                                         *)
(***************************************************************************)
\* the effect body run with dependency values p: a new session, whose
\* animate() is called once before the effect returns
EffectSessions(ss, p) == Append(ss, Animate(NewSession(p)))

\* if (mountRef.current) mountRef.current.appendChild(renderer.domElement)
EffectChildren(m, i, ref) == IF ref THEN m \cup {i} ELSE m

\* window.addEventListener('resize', handleResize)
EffectResize(w, i) == w \cup {i}

\* document.body.appendChild(resetButton)
EffectButtons(b, i) == b \cup {i}

\* the cleanup function of session i has run (it touches no session state)
CleanupSessions(ss, i) == [ss EXCEPT ![i].cleaned = TRUE]

\* window.removeEventListener('resize', handleResize)
CleanupResize(w, i) == w \ {i}

\* if (mountRef.current) mountRef.current.removeChild(renderer.domElement)
CleanupChildren(m, i, ref) == IF ref THEN m \ {i} ELSE m

\* the cleanup without document.body.removeChild(resetButton)
CleanupButtons_Kept(b, i) == b

\* document.body.removeChild(resetButton)
CleanupButtons(b, i) == b \ {i}

(***************************************************************************)
(* Initial state: the component has rendered and its effect has run once   *)
(***************************************************************************)
Init ==
  /\ props = DefaultProps
  /\ mounted = TRUE
  /\ mountRef = TRUE
  /\ sessions = EffectSessions(<< >>, DefaultProps)
  /\ windowResize = EffectResize({}, 1)
  /\ mountChildren = EffectChildren({}, 1, TRUE)
  /\ bodyButtons = EffectButtons({}, 1)
  /\ last = FrameObs(1, NewSession(DefaultProps), "start")
  /\ frames = 0

(***************************************************************************)
(* Actions                                                                 *)
(***************************************************************************)
\* the frame scheduler runs the pending animate callback of session i,
\* e ms after the previous step
Frame(i, e) ==
  /\ i \in DOMAIN sessions
  /\ sessions[i].rafPending > 0
  /\ LET adv == Advance(sessions, e)
         s == ParamsSeen(Dequeue(adv[i]), props)
     IN
       /\ sessions' = [adv EXCEPT ![i] = Animate(s)]
       /\ last' = FrameObs(i, s, "frame")
  /\ UNCHANGED <<props, mounted, mountRef, windowResize, mountChildren,
                 bodyButtons>>

\* Reset acting on the first session's variables whichever button is clicked
Reset_First(i) ==
  /\ i \in bodyButtons
  /\ sessions' = [sessions EXCEPT ![1] = ResetSimulation(@)]
  /\ last' = OtherObs(i, sessions[i], "reset")
  /\ UNCHANGED <<props, mounted, mountRef, windowResize, mountChildren,
                 bodyButtons>>

\* a click on the reset button of session i, which is in the document
Reset(i) ==
  /\ i \in bodyButtons
  /\ sessions' = [sessions EXCEPT ![i] = ResetSimulation(@)]
  /\ last' = OtherObs(i, sessions[i], "reset")
  /\ UNCHANGED <<props, mounted, mountRef, windowResize, mountChildren,
                 bodyButtons>>

\* state setters change the dependencies to p: React re-renders, runs the
\* cleanup of the current effect and then the effect body again
SetProps(p) ==
  /\ mounted
  /\ p # props
  /\ Len(sessions) < MaxSessions
  /\ props' = p
  /\ sessions' = EffectSessions(CleanupSessions(sessions, Current), p)
  /\ windowResize' = EffectResize(CleanupResize(windowResize, Current),
                                  Current + 1)
  /\ mountChildren' =
       EffectChildren(CleanupChildren(mountChildren, Current, mountRef),
                      Current + 1, mountRef)
  /\ bodyButtons' = EffectButtons(CleanupButtons(bodyButtons, Current),
                                  Current + 1)
  /\ last' = FrameObs(Current + 1, NewSession(p), "start")
  /\ UNCHANGED <<mounted, mountRef>>

\* the host unmounts the component: React detaches the ref, removes the
\* mount div from the document and runs the cleanup; whether the cleanup
\* still sees mountRef.current depends on the React version (ref)
Unmount(ref) ==
  /\ mounted
  /\ mounted' = FALSE
  /\ mountRef' = FALSE
  /\ sessions' = CleanupSessions(sessions, Current)
  /\ windowResize' = CleanupResize(windowResize, Current)
  /\ mountChildren' = CleanupChildren(mountChildren, Current, ref)
  /\ bodyButtons' = CleanupButtons(bodyButtons, Current)
  /\ last' = OtherObs(Current, sessions[Current], "unmount")
  /\ UNCHANGED props

(***************************************************************************)
(* Inputs                                                                  *)
(***************************************************************************)
\* ms between two steps: a 60 Hz refresh, a stall longer than the delta cap
Elapsed == {16, 150}

\* ms between two frames of a display that refreshes steadily at 60 Hz
Steady == {16}

\* a sphere that starts just above the ground
NearGround == [DefaultProps EXCEPT !.sphereRadius = 99900]

\* a sphere larger than the drop height, under weak gravity, bouncing
\* without friction
Light ==
  [restitution |-> 5000, gravity |-> 6250, sphereRadius |-> 120000,
   friction |-> 0]

\* the dependency values the setters choose among
PropChoices == {DefaultProps, NearGround, Light}

(***************************************************************************)
(* Specifications                                                          *)
(***************************************************************************)
Next ==
  \/ \E i \in 1..MaxSessions, e \in Elapsed :
       frames < MaxFrames /\ Frame(i, e) /\ frames' = frames + 1
  \/ \E i \in 1..MaxSessions : Reset(i) /\ UNCHANGED frames
  \/ \E p \in PropChoices : SetProps(p) /\ UNCHANGED frames
  \/ \E ref \in BOOLEAN : Unmount(ref) /\ UNCHANGED frames

Spec == Init /\ [][Next]_vars

\* the first session at a steady frame rate, never reset nor torn down;
\* animate re-registers itself on every call, so the scheduler keeps
\* calling it: weak fairness of the frame step
NextFrames == \E e \in Steady : Frame(1, e) /\ UNCHANGED frames

SpecFrames == Init /\ [][NextFrames]_vars /\ WF_vars(NextFrames)

(***************************************************************************)
(* Properties                                                              *)
(***************************************************************************)
\* the session the latest step acted on
LastSession == sessions[last.s]

\* the latest step was a call of animate() that integrated and resolved
Integrated == last.kind \in {"start", "frame"} /\ last.integrated

\* C1: in every reachable state, a session whose isResting is true has
\* velocity 0 and its sphere at height sphereRadius
Inv_RestingAtRadius ==
  \A i \in DOMAIN sessions :
    sessions[i].isResting =>
      sessions[i].velocity = 0 /\ sessions[i].y = sessions[i].sphereRadius

\* a frame after a reset brought a session to rest
Wit_RestingAtRadius ==
  last.kind = "frame" /\ last.contact /\ LastSession.isResting

\* C2: after a call of animate() that integrated, the sphere is at or above
\* sphereRadius, and exactly at sphereRadius when the integrated position
\* was below it
Inv_Clamp ==
  Integrated =>
    /\ LastSession.y >= LastSession.sphereRadius
    /\ last.preY < LastSession.sphereRadius =>
         LastSession.y = LastSession.sphereRadius

\* a frame after a reset, with a full maxDelta step, in a session whose
\* sphere is larger than the drop height
Wit_Clamp ==
  /\ last.kind = "frame" /\ last.contact /\ last.dt = maxDelta
  /\ dropHeight < LastSession.sphereRadius

\* C3: with the frame callback running forever at a steady rate and neither
\* reset nor teardown, the session eventually rests
Live_EventuallyResting == <>(sessions[1].isResting)

\* C4: the speed after a bounce is strictly smaller than the speed after
\* the previous bounce of the same session since its start or last reset
Inv_ReboundDecreases ==
  (last.kind = "frame" /\ last.bounced /\ last.prevRebound > 0) =>
    LastSession.velocity < last.prevRebound

\* C5: at most one session has a frame callback pending
Inv_OneActiveSession ==
  Cardinality({i \in DOMAIN sessions : sessions[i].rafPending > 0}) <= 1

\* C6: a session whose cleanup has run has no frame callback pending and
\* none of its frame callbacks runs
Inv_TeardownReleasesFrames ==
  /\ \A i \in DOMAIN sessions :
       sessions[i].cleaned => sessions[i].rafPending = 0
  /\ last.kind = "frame" => ~LastSession.cleaned

\* the canvas of session i is attached to the document
CanvasInDocument(i) == mounted /\ i \in mountChildren

Act_RestingTerminal ==
  [][\A i \in DOMAIN sessions :
       sessions[i].isResting =>
         \/ last'.kind = "reset" /\ last'.s = i
         \/ /\ sessions'[i].isResting
            /\ sessions'[i].y = sessions[i].y
            /\ sessions'[i].velocity = sessions[i].velocity]_vars

\* a frame callback ran on a resting session
Wit_RestingTerminal ==
  last.kind = "frame" /\ last.wasResting /\ LastSession.isResting

\* C9: right after a reset the session has its sphere at dropHeight,
\* velocity 0 and isResting false
Inv_ResetCorrect ==
  last.kind = "reset" =>
    /\ LastSession.y = dropHeight
    /\ LastSession.velocity = 0
    /\ ~LastSession.isResting

\* a reset of a session that was moving upwards after a bounce
Wit_ResetCorrect ==
  last.kind = "reset" /\ ~last.wasResting /\ last.preY > dropHeight

\* C10: the dt a frame integrates with is the wall time since the previous
\* frame of that session, capped at maxDelta
Inv_DtIsFrameGap ==
  (last.kind = "frame" /\ last.integrated) =>
    last.dt = Min(Seconds(last.raw), maxDelta)

\* C11: the dt of every integration step is between 0 and maxDelta, and is
\* maxDelta whenever the time since the previous clock read exceeds it
Inv_DeltaCap ==
  Integrated =>
    /\ 0 <= last.dt /\ last.dt <= maxDelta
    /\ Seconds(last.tick) > maxDelta => last.dt = maxDelta

\* a frame integrated after more than maxDelta since the last clock read
Wit_DeltaCap ==
  last.kind = "frame" /\ last.integrated /\ Seconds(last.tick) > maxDelta

\* the clock, the frame registration and the captured dependencies of a
\* session
Untouched(s) ==
  <<s.clockRunning, s.sinceTick, s.rafPending, s.restitution, s.gravity,
    s.sphereRadius, s.friction>>

\* C12: a reset leaves the clock's last read time, the number of registered
\* frame callbacks and the parameters of its session, and the component's
\* state, unchanged
Act_ResetOnlyPhysics ==
  [][last'.kind = "reset" =>
       /\ Untouched(sessions'[last'.s]) = Untouched(sessions[last'.s])
       /\ props' = props]_vars

\* a reset while the clock had been read some time before
Wit_ResetOnlyPhysics ==
  /\ last.kind = "reset"
  /\ LastSession.clockRunning /\ LastSession.sinceTick > 0
  /\ LastSession.rafPending = 1

\* C13: no state shows a sphere below its radius that integration left
\* there: a sphere below its radius is one just placed at dropHeight by a
\* reset, with velocity 0
Inv_NoUnclampedState ==
  \A i \in DOMAIN sessions :
    sessions[i].y < sessions[i].sphereRadius =>
      /\ sessions[i].y = dropHeight
      /\ sessions[i].velocity = 0
      /\ ~sessions[i].isResting

\* a frame's integration went below the radius while another session's
\* callback was registered
Wit_NoUnclampedState ==
  /\ last.kind = "frame" /\ last.contact
  /\ last.preY < LastSession.sphereRadius
  /\ \E j \in DOMAIN sessions : j # last.s /\ sessions[j].rafPending > 0

\* the four dependencies captured by a session
Params(s) ==
  [restitution |-> s.restitution, gravity |-> s.gravity,
   sphereRadius |-> s.sphereRadius, friction |-> s.friction]

\* C14: a session's parameters never change: they are the component's
\* state at the session's start, and every frame uses them
Act_ParamsConstant ==
  [][/\ \A i \in DOMAIN sessions : Params(sessions'[i]) = Params(sessions[i])
     /\ last'.kind = "frame" => last'.used = Params(sessions[last'.s])
     /\ last'.kind = "start" => Params(sessions'[last'.s]) = props']_vars

\* a frame of a session integrated after the component's state had changed
Wit_ParamsConstant ==
  /\ last.kind = "frame" /\ last.integrated
  /\ Params(LastSession) # props

\* C15 as claimed: right after its start every session has its sphere at
\* dropHeight, velocity 0 and isResting false
Inv_StartsFalling ==
  last.kind = "start" =>
    /\ LastSession.y = dropHeight
    /\ LastSession.velocity = 0
    /\ ~LastSession.isResting

\* C15: right after its start a session whose sphereRadius is at most
\* dropHeight has its sphere at dropHeight, velocity 0 and isResting false;
\* one whose sphereRadius exceeds dropHeight rests at sphereRadius
Inv_StartState ==
  last.kind = "start" =>
    /\ LastSession.velocity = 0
    /\ LastSession.sphereRadius <= dropHeight =>
         LastSession.y = dropHeight /\ ~LastSession.isResting
    /\ LastSession.sphereRadius > dropHeight =>
         LastSession.y = LastSession.sphereRadius /\ LastSession.isResting

\* a parameter change started a session with a sphere no larger than the
\* drop height, replacing a session whose sphere had moved
Wit_StartState ==
  /\ last.kind = "start" /\ last.s >= 2
  /\ LastSession.sphereRadius <= dropHeight
  /\ sessions[last.s - 1].y # dropHeight

\* C16: a session whose cleanup has not run has exactly one frame callback
\* registered
Inv_OnePending ==
  \A i \in DOMAIN sessions :
    ~sessions[i].cleaned => sessions[i].rafPending = 1

\* a frame callback ran on a resting session that is not torn down
Wit_OnePending ==
  /\ last.kind = "frame" /\ last.wasResting
  /\ ~LastSession.cleaned /\ LastSession.rafPending = 1

\* position, velocity and resting flag of a session
Physics(s) == <<s.y, s.velocity, s.isResting>>

\* C17: a step changes the physics of a session only if it is a frame or a
\* reset of that session, and a reset acts on the current session
Act_OwnWriter ==
  [][/\ \A i \in DOMAIN sessions :
          Physics(sessions'[i]) # Physics(sessions[i]) =>
            last'.s = i /\ last'.kind \in {"frame", "reset"}
     /\ last'.kind = "reset" =>
          /\ last'.s = Current
          /\ Physics(sessions'[Current]) = <<dropHeight, 0, FALSE>>]_vars

\* a reset of the second session while the first, torn down, had moved
Wit_OwnWriter ==
  /\ last.kind = "reset" /\ last.s >= 2
  /\ sessions[1].cleaned /\ sessions[1].y < dropHeight

Inv_HeightBounded ==
  \A i \in DOMAIN sessions :
    sessions[i].y <=
      (IF dropHeight > sessions[i].sphereRadius
       THEN dropHeight ELSE sessions[i].sphereRadius)

====
